---- MODULE Spec2Model ----
(***************************************************************************)
(* NodeLatencyTracker of cluster-autoscaler/core/scaledown/latencytracker. *)
(*                                                                         *)
(* The tracker owns one Go map, nodes: name -> nodeInfo{unneededSince,     *)
(* threshold}, and four methods.  Every removal from the map is preceded   *)
(* by one call of metrics.UpdateScaleDownNodeRemovalLatency(deletion,      *)
(* duration).                                                              *)
(*                                                                         *)
(* Time values are integers (one unit = one tick of the caller's clock);   *)
(* the model stays in the range where time.Time.Sub does not saturate and  *)
(* Duration subtraction does not wrap.                                     *)
(*                                                                         *)
(* Three specifications share the state:                                   *)
(*   Spec          the four methods called one after another;              *)
(*   SpecConc      the methods called from two goroutines, interleaved     *)
(*                 statement by statement (the struct has no mutex);       *)
(*   SpecDisjoint  SpecConc restricted to UpdateStateWithUnneededList and  *)
(*                 ObserveDeletion calls that act on different nodes.      *)
(***************************************************************************)
EXTENDS Integers, Sequences, FiniteSets, TLC

VARIABLES nodes, nEmitted, nRemoved, sampled, last, threads, crashed

vars == <<nodes, nEmitted, nRemoved, sampled, last, threads, crashed>>

(***************************************************************************)
(* Bounds of the model.                                                    *)
(***************************************************************************)
MaxTime == 1
MaxThreshold == 1
MaxList == 2
\* Calls start while fewer than MaxSamples samples have been emitted.
MaxSamples == 2
\* The goroutines of SpecConc and SpecDisjoint pass timestamps 0..MaxConcTime.
MaxConcTime == 0

Names == {"node1", "node2"}
Times == 0..MaxTime
Thresholds == 0..MaxThreshold

ConcTimes == 0..MaxConcTime

\* Sequences over S of length at most n (an unneeded list may repeat a name).
SeqsUpTo(S, n) == UNION {[1..k -> S] : k \in 0..n}
Lists == SeqsUpTo(Names, MaxList)

\* currentlyInDeletion map[string]bool: any keys, any stored booleans.
InDeletionMaps == UNION {[K -> BOOLEAN] : K \in SUBSET Names}

Range(s) == {s[i] : i \in DOMAIN s}

\* All orders in which a range loop may visit the key set S.
Orders(S) == {o \in [1..Cardinality(S) -> S] : Range(o) = S}

(***************************************************************************)
(* The Go map and its primitive operations.                                *)
(***************************************************************************)
EmptyMap == [k \in {} |-> 0]

Put(m, k, v) == [x \in (DOMAIN m) \cup {k} |-> IF x = k THEN v ELSE m[x]]

Delete(m, k) == [x \in (DOMAIN m) \ {k} |-> m[x]]

nodeInfo(since, th) == [unneededSince |-> since, threshold |-> th]

NodeInfos == [unneededSince : Times, threshold : Thresholds]

\* Variant: a negative duration is reported as zero.
DurationClamped(timestamp, info) ==
  LET d == (timestamp - info.unneededSince) - info.threshold
  IN IF d < 0 THEN 0 ELSE d

\* duration := timestamp.Sub(info.unneededSince); the value handed to the
\* metric is duration - info.threshold, signed.
Duration(timestamp, info) == (timestamp - info.unneededSince) - info.threshold

\* One call of metrics.UpdateScaleDownNodeRemovalLatency(deletion, d).  The
\* node field is a ghost: the metric itself carries no node name.
Sample(name, deletion, d) == [node |-> name, deletion |-> deletion, duration |-> d]

\* What one method call did: the map it leaves, the samples it emitted and
\* the keys it deleted, both in program order, and the value it returned.
Outcome(m, emitted, removed, ret) ==
  [nodes |-> m, emitted |-> emitted, removed |-> removed, ret |-> ret]

(***************************************************************************)
(* UpdateStateWithUnneededList, first loop: record the listed names and    *)
(* start tracking those that are not in the map.                           *)
(***************************************************************************)
\* Variant: the existence check is missing, every listed name is (re)written.
RECURSIVE TrackUnneededReset(_, _, _)
TrackUnneededReset(m, list, timestamp) ==
  IF list = <<>> THEN m
  ELSE TrackUnneededReset(Put(m, Head(list), nodeInfo(timestamp, 0)), Tail(list), timestamp)

RECURSIVE TrackUnneeded(_, _, _)
TrackUnneeded(m, list, timestamp) ==
  IF list = <<>> THEN m
  ELSE LET name == Head(list)
           m1 == IF name \notin DOMAIN m
                   THEN Put(m, name, nodeInfo(timestamp, 0))
                   ELSE m
       IN TrackUnneeded(m1, Tail(list), timestamp)

CurrentSet(list) == Range(list)

(***************************************************************************)
(* UpdateStateWithUnneededList, second loop: range over the map in the     *)
(* order `order`; a name that is neither in currentSet nor a key of        *)
(* currentlyInDeletion is reported with deletion = false and deleted.      *)
(***************************************************************************)
\* Variant: the currentlyInDeletion check is missing.
RECURSIVE ReportMissingIgnoringDeletion(_, _, _, _, _)
ReportMissingIgnoringDeletion(acc, order, currentSet, currentlyInDeletion, timestamp) ==
  IF order = <<>> THEN acc
  ELSE LET name == Head(order)
           acc1 == IF name \notin currentSet
                     THEN Outcome(Delete(acc.nodes, name),
                                  Append(acc.emitted,
                                         Sample(name, FALSE,
                                                Duration(timestamp, acc.nodes[name]))),
                                  Append(acc.removed, name),
                                  acc.ret)
                     ELSE acc
       IN ReportMissingIgnoringDeletion(acc1, Tail(order), currentSet,
                                        currentlyInDeletion, timestamp)

\* Variant: the currentSet check is missing.
RECURSIVE ReportMissingIgnoringCurrent(_, _, _, _, _)
ReportMissingIgnoringCurrent(acc, order, currentSet, currentlyInDeletion, timestamp) ==
  IF order = <<>> THEN acc
  ELSE LET name == Head(order)
           acc1 == IF name \notin DOMAIN currentlyInDeletion
                     THEN Outcome(Delete(acc.nodes, name),
                                  Append(acc.emitted,
                                         Sample(name, FALSE,
                                                Duration(timestamp, acc.nodes[name]))),
                                  Append(acc.removed, name),
                                  acc.ret)
                     ELSE acc
       IN ReportMissingIgnoringCurrent(acc1, Tail(order), currentSet,
                                       currentlyInDeletion, timestamp)

\* Variant: the boolean stored in currentlyInDeletion is tested instead of
\* the presence of the key.
RECURSIVE ReportMissingByValue(_, _, _, _, _)
ReportMissingByValue(acc, order, currentSet, currentlyInDeletion, timestamp) ==
  IF order = <<>> THEN acc
  ELSE LET name == Head(order)
           inDeletion == IF name \in DOMAIN currentlyInDeletion
                           THEN currentlyInDeletion[name]
                           ELSE FALSE
           acc1 == IF name \notin currentSet /\ ~inDeletion
                     THEN Outcome(Delete(acc.nodes, name),
                                  Append(acc.emitted,
                                         Sample(name, FALSE,
                                                Duration(timestamp, acc.nodes[name]))),
                                  Append(acc.removed, name),
                                  acc.ret)
                     ELSE acc
       IN ReportMissingByValue(acc1, Tail(order), currentSet,
                               currentlyInDeletion, timestamp)

\* Variant: the range loop stops after its first deletion.
RECURSIVE ReportMissingFirstOnly(_, _, _, _, _)
ReportMissingFirstOnly(acc, order, currentSet, currentlyInDeletion, timestamp) ==
  IF order = <<>> THEN acc
  ELSE LET name == Head(order)
       IN IF name \notin currentSet /\ name \notin DOMAIN currentlyInDeletion
            THEN Outcome(Delete(acc.nodes, name),
                         Append(acc.emitted,
                                Sample(name, FALSE, Duration(timestamp, acc.nodes[name]))),
                         Append(acc.removed, name),
                         acc.ret)
            ELSE ReportMissingFirstOnly(acc, Tail(order), currentSet,
                                        currentlyInDeletion, timestamp)

RECURSIVE ReportMissing(_, _, _, _, _)
ReportMissing(acc, order, currentSet, currentlyInDeletion, timestamp) ==
  IF order = <<>> THEN acc
  ELSE LET name == Head(order)
           info == acc.nodes[name]
           stillUnneeded == name \in currentSet
           inDeletion == name \in DOMAIN currentlyInDeletion
           acc1 == IF ~stillUnneeded /\ ~inDeletion
                     THEN Outcome(Delete(acc.nodes, name),
                                  Append(acc.emitted,
                                         Sample(name, FALSE, Duration(timestamp, info))),
                                  Append(acc.removed, name),
                                  acc.ret)
                     ELSE acc
       IN ReportMissing(acc1, Tail(order), currentSet, currentlyInDeletion, timestamp)

UpdateStateResult(m, list, currentlyInDeletion, timestamp, order) ==
  ReportMissing(Outcome(TrackUnneeded(m, list, timestamp), <<>>, <<>>, <<>>),
                order, CurrentSet(list), currentlyInDeletion, timestamp)

(***************************************************************************)
(* ObserveDeletion, UpdateThreshold, GetTrackedNodes as functions of the   *)
(* map.                                                                    *)
(***************************************************************************)
\* Variant: the sample is emitted and the delete is forgotten.
ObserveDeletionKeepsEntry(m, nodeName, timestamp) ==
  IF nodeName \in DOMAIN m
    THEN Outcome(m, <<Sample(nodeName, TRUE, Duration(timestamp, m[nodeName]))>>,
                 <<>>, <<>>)
    ELSE Outcome(m, <<>>, <<>>, <<>>)

\* Variant: the sample carries the tag of the other call site.
ObserveDeletionWrongTag(m, nodeName, timestamp) ==
  IF nodeName \in DOMAIN m
    THEN Outcome(Delete(m, nodeName),
                 <<Sample(nodeName, FALSE, Duration(timestamp, m[nodeName]))>>,
                 <<nodeName>>, <<>>)
    ELSE Outcome(m, <<>>, <<>>, <<>>)

ObserveDeletionResult(m, nodeName, timestamp) ==
  IF nodeName \in DOMAIN m
    THEN Outcome(Delete(m, nodeName),
                 <<Sample(nodeName, TRUE, Duration(timestamp, m[nodeName]))>>,
                 <<nodeName>>, <<>>)
    ELSE Outcome(m, <<>>, <<>>, <<>>)

\* Variant: the existence check is missing; an unknown name gets the zero
\* nodeInfo with the new threshold.
UpdateThresholdUnchecked(m, nodeName, threshold) ==
  Outcome(Put(m, nodeName,
              nodeInfo(IF nodeName \in DOMAIN m THEN m[nodeName].unneededSince ELSE 0,
                       threshold)),
          <<>>, <<>>, <<>>)

\* Variant: the new threshold is written to every entry once the node is
\* found.
UpdateThresholdAll(m, nodeName, threshold) ==
  IF nodeName \in DOMAIN m
    THEN Outcome([n \in DOMAIN m |-> nodeInfo(m[n].unneededSince, threshold)],
                 <<>>, <<>>, <<>>)
    ELSE Outcome(m, <<>>, <<>>, <<>>)

\* Variant: the new threshold is added to the stored one, so earlier calls
\* keep an effect.
UpdateThresholdAccumulates(m, nodeName, threshold) ==
  IF nodeName \in DOMAIN m
    THEN Outcome(Put(m, nodeName,
                     nodeInfo(m[nodeName].unneededSince,
                              m[nodeName].threshold + threshold)),
                 <<>>, <<>>, <<>>)
    ELSE Outcome(m, <<>>, <<>>, <<>>)

UpdateThresholdResult(m, nodeName, threshold) ==
  IF nodeName \in DOMAIN m
    THEN Outcome(Put(m, nodeName, nodeInfo(m[nodeName].unneededSince, threshold)),
                 <<>>, <<>>, <<>>)
    ELSE Outcome(m, <<>>, <<>>, <<>>)

\* Variant: the slice is made with length len(t.nodes) instead of capacity,
\* so the appended names follow that many empty strings.
GetTrackedNodesPresized(m, order) ==
  Outcome(m, <<>>, <<>>, [i \in 1..Len(order) |-> ""] \o order)

GetTrackedNodesResult(m, order) == Outcome(m, <<>>, <<>>, order)

(***************************************************************************)
(* Ghost bookkeeping.  sampled[n] is the sequence of deletion tags of the  *)
(* samples emitted for n since n was last inserted; last is the latest     *)
(* call with the map it found.                                             *)
(***************************************************************************)
RECURSIVE NoteSamples(_, _)
NoteSamples(s, emitted) ==
  IF emitted = <<>> THEN s
  ELSE LET e == Head(emitted)
       IN NoteSamples([s EXCEPT ![e.node] = Append(@, e.deletion)], Tail(emitted))

NoteInserts(s, before, after) ==
  [n \in Names |-> IF n \in DOMAIN after /\ n \notin DOMAIN before THEN <<>> ELSE s[n]]

Call(op, nodeName, list, inDel, timestamp, threshold, pre, out) ==
  [op |-> op, node |-> nodeName, list |-> list, inDel |-> inDel, ts |-> timestamp,
   th |-> threshold, pre |-> pre, emitted |-> out.emitted, removed |-> out.removed,
   ret |-> out.ret,
   repeat |-> FALSE, elapsed |-> 0,
   retracked |-> {},
   preTh |-> [n \in Names |-> 0], thSet |-> [n \in Names |-> 0]]

NoCall == Call("none", "", <<>>, EmptyMap, 0, 0, EmptyMap, Outcome(EmptyMap, <<>>, <<>>, <<>>))

\* Ghost: the call repeats the call made directly before it, an
\* UpdateStateWithUnneededList with the same list and the same keys in
\* deletion, at a timestamp that is not earlier.
Repeats(prev, call) ==
  /\ call.op = "UpdateStateWithUnneededList"
  /\ prev.op = "UpdateStateWithUnneededList"
  /\ call.list = prev.list
  /\ DOMAIN call.inDel = DOMAIN prev.inDel
  /\ call.ts >= prev.ts

\* Ghost: the time between a repeating call and the call it repeats.
Elapsed(prev, call) ==
  IF Repeats(prev, call) THEN call.ts - prev.ts ELSE 0

\* Ghost: whether the call is an UpdateThreshold for a node tracked when it
\* is made.
SetsThreshold(call, n) ==
  call.op = "UpdateThreshold" /\ call.node = n /\ n \in DOMAIN call.pre

\* Ghost: thSet[n] is the threshold passed by the latest UpdateThreshold call
\* made for n in its current tracked lifetime, 0 when there was none or n is
\* not tracked.
ThresholdsSet(prev, call, after) ==
  [n \in Names |->
     IF n \notin DOMAIN after \/ n \notin DOMAIN call.pre THEN 0
     ELSE IF SetsThreshold(call, n) THEN call.th
     ELSE prev.thSet[n]]

\* Ghost: the nodes an UpdateStateWithUnneededList lists of which an earlier
\* tracked lifetime has ended (a sample of that lifetime is on record).
Retracked(call, preSampled) ==
  IF call.op = "UpdateStateWithUnneededList"
    THEN {n \in Range(call.list) : preSampled[n] # <<>>}
    ELSE {}

Noted(prev, call, mid, after, preSampled) ==
  [call EXCEPT !.repeat = Repeats(prev, call),
               !.elapsed = Elapsed(prev, call),
               !.retracked = Retracked(call, preSampled),
               !.preTh = prev.thSet,
               !.thSet = ThresholdsSet(prev, call, after)]

\* A sequential call takes effect as a whole.  mid is the map after the call's
\* insertions and before its deletions; nRemoved counts the keys that left it.
Commit(out, mid, call) ==
  /\ nodes' = out.nodes
  /\ nEmitted' = nEmitted + Len(out.emitted)
  /\ nRemoved' = nRemoved + Cardinality((DOMAIN mid) \ (DOMAIN out.nodes))
  /\ sampled' = NoteSamples(NoteInserts(sampled, nodes, mid), out.emitted)
  /\ last' = Noted(last, call, mid, out.nodes, sampled)
  /\ UNCHANGED <<threads, crashed>>

(***************************************************************************)
(* The tracker called from two goroutines with no caller-side              *)
(* synchronisation: the scale-down loop (UpdateStateWithUnneededList,      *)
(* UpdateThreshold, GetTrackedNodes) and the actuator (ObserveDeletion).   *)
(* NodeLatencyTracker holds no mutex, so the methods interleave statement  *)
(* by statement.  A map access is in flight from BeginAccess to the step   *)
(* that completes it.  Two accesses to the map in flight together, one of  *)
(* them a write, are a data race on a Go map: the runtime may abort the    *)
(* process (fatal error: concurrent map writes / concurrent map read and   *)
(* map write), a write that raced with a write may be lost, or the         *)
(* accesses may take effect one after the other.                           *)
(***************************************************************************)
Threads == {"loop", "actuator"}

Other(t) == CHOOSE u \in Threads : u # t

IdleFrame ==
  [pc |-> "idle", acc |-> "none", raced |-> "none", list |-> <<>>, i |-> 0,
   inDel |-> EmptyMap, ts |-> 0, node |-> "", th |-> 0, currentSet |-> {},
   seen |-> {}, info |-> nodeInfo(0, 0), names |-> <<>>]


Init ==
  /\ nodes = EmptyMap
  /\ nEmitted = 0
  /\ nRemoved = 0
  /\ sampled = [n \in Names |-> <<>>]
  /\ last = NoCall
  /\ threads = [t \in Threads |-> IdleFrame]
  /\ crashed = FALSE

(***************************************************************************)
(* The four methods, each called to completion before the next.            *)
(***************************************************************************)
UpdateStateWithUnneededList(list, currentlyInDeletion, timestamp) ==
  /\ nEmitted < MaxSamples
  /\ LET mid == TrackUnneeded(nodes, list, timestamp)
     IN \E order \in Orders(DOMAIN mid) :
          LET out == UpdateStateResult(nodes, list, currentlyInDeletion, timestamp, order)
          IN Commit(out, mid,
                    Call("UpdateStateWithUnneededList", "", list, currentlyInDeletion,
                         timestamp, 0, nodes, out))

ObserveDeletion(nodeName, timestamp) ==
  /\ nEmitted < MaxSamples
  /\ LET out == ObserveDeletionResult(nodes, nodeName, timestamp)
     IN Commit(out, nodes,
               Call("ObserveDeletion", nodeName, <<>>, EmptyMap, timestamp, 0, nodes, out))

UpdateThreshold(nodeName, threshold) ==
  /\ nEmitted < MaxSamples
  /\ LET out == UpdateThresholdResult(nodes, nodeName, threshold)
     IN Commit(out, nodes,
               Call("UpdateThreshold", nodeName, <<>>, EmptyMap, 0, threshold, nodes, out))

GetTrackedNodes ==
  /\ nEmitted < MaxSamples
  /\ \E order \in Orders(DOMAIN nodes) :
       LET out == GetTrackedNodesResult(nodes, order)
       IN Commit(out, nodes,
                 Call("GetTrackedNodes", "", <<>>, EmptyMap, 0, 0, nodes, out))

Next ==
  \/ \E list \in Lists, d \in InDeletionMaps, t \in Times :
       UpdateStateWithUnneededList(list, d, t)
  \/ \E n \in Names, t \in Times : ObserveDeletion(n, t)
  \/ \E n \in Names, th \in Thresholds : UpdateThreshold(n, th)
  \/ GetTrackedNodes

Spec == Init /\ [][Next]_vars

\* The map access the statement at pc performs.
AccessKind(pc) ==
  CASE pc \in {"track", "range", "od_read", "ut_read", "gt_len", "gt_range"} -> "read"
    [] pc \in {"insert", "delete", "od_delete", "ut_write"} -> "write"
    [] OTHER -> "none"

Conflict(a, b) == a # "none" /\ b # "none" /\ (a = "write" \/ b = "write")

Stronger(a, b) == IF a = "write" \/ b = "write" THEN "write"
                  ELSE IF a = "read" \/ b = "read" THEN "read" ELSE "none"

\* The thread starts the map access of its current statement; an access of
\* the other thread that is in flight and conflicts with it has raced.
BeginAccess(t) ==
  LET f == threads[t]
      u == Other(t)
      g == threads[u]
      k == AccessKind(f.pc)
  IN /\ ~crashed
     /\ k # "none"
     /\ f.acc = "none"
     /\ threads' =
          IF Conflict(k, g.acc)
            THEN [threads EXCEPT ![t].acc = k, ![t].raced = Stronger(f.raced, g.acc),
                                 ![u].raced = Stronger(g.raced, k)]
            ELSE [threads EXCEPT ![t].acc = k]
     /\ UNCHANGED <<nodes, nEmitted, nRemoved, sampled, last, crashed>>

\* The runtime detects the race and aborts the process.
FatalError(t) ==
  /\ ~crashed
  /\ threads[t].acc # "none"
  /\ threads[t].raced # "none"
  /\ crashed' = TRUE
  /\ UNCHANGED <<nodes, nEmitted, nRemoved, sampled, last, threads>>

\* Whether the write in flight takes effect: a write that raced a write may not.
Lands(f) == IF f.raced = "write" THEN BOOLEAN ELSE {TRUE}

Reading(t, pc) == ~crashed /\ threads[t].pc = pc /\ threads[t].acc = "read"
Writing(t, pc) == ~crashed /\ threads[t].pc = pc /\ threads[t].acc = "write"
At(t, pc) == ~crashed /\ threads[t].pc = pc /\ threads[t].acc = "none"

Done(f) == [f EXCEPT !.acc = "none", !.raced = "none"]

(***************************************************************************)
(* UpdateStateWithUnneededList, statement by statement.                    *)
(***************************************************************************)
StartUpdateState(list, currentlyInDeletion, timestamp) ==
  /\ At("loop", "idle")
  /\ nEmitted < MaxSamples
  /\ threads' = [threads EXCEPT !["loop"] =
       [IdleFrame EXCEPT !.pc = IF list = <<>> THEN "range" ELSE "track",
                         !.list = list, !.i = 1, !.inDel = currentlyInDeletion,
                         !.ts = timestamp]]
  /\ UNCHANGED <<nodes, nEmitted, nRemoved, sampled, last, crashed>>

NextListed(f) ==
  [f EXCEPT !.i = f.i + 1, !.pc = IF f.i + 1 > Len(f.list) THEN "range" ELSE "track"]

\* currentSet[node.Name] = struct{}{}; _, exists := t.nodes[node.Name]
TrackStep ==
  /\ Reading("loop", "track")
  /\ LET f == Done(threads["loop"])
         name == f.list[f.i]
         f1 == [f EXCEPT !.currentSet = @ \cup {name}]
     IN threads' = [threads EXCEPT !["loop"] =
          IF name \in DOMAIN nodes THEN NextListed(f1) ELSE [f1 EXCEPT !.pc = "insert"]]
  /\ UNCHANGED <<nodes, nEmitted, nRemoved, sampled, last, crashed>>

\* t.nodes[node.Name] = nodeInfo{unneededSince: timestamp, threshold: 0}
InsertStep ==
  /\ Writing("loop", "insert")
  /\ LET f == threads["loop"]
         name == f.list[f.i]
     IN /\ \E lands \in Lands(f) :
             /\ nodes' = IF lands THEN Put(nodes, name, nodeInfo(f.ts, 0)) ELSE nodes
             /\ sampled' = IF lands /\ name \notin DOMAIN nodes
                             THEN [sampled EXCEPT ![name] = <<>>] ELSE sampled
        /\ threads' = [threads EXCEPT !["loop"] = NextListed(Done(f))]
  /\ UNCHANGED <<nEmitted, nRemoved, last, crashed>>

\* for name, info := range t.nodes: the next entry not yet visited, or the end.
RangeStep ==
  /\ Reading("loop", "range")
  /\ LET f == Done(threads["loop"])
         rest == (DOMAIN nodes) \ f.seen
     IN IF rest = {}
          THEN threads' = [threads EXCEPT !["loop"] = IdleFrame]
          ELSE \E name \in rest :
                 LET f1 == [f EXCEPT !.seen = @ \cup {name}]
                 IN threads' = [threads EXCEPT !["loop"] =
                      IF name \notin f.currentSet /\ name \notin DOMAIN f.inDel
                        THEN [f1 EXCEPT !.pc = "report", !.node = name, !.info = nodes[name]]
                        ELSE f1]
  /\ UNCHANGED <<nodes, nEmitted, nRemoved, sampled, last, crashed>>

\* metrics.UpdateScaleDownNodeRemovalLatency(false, duration-info.threshold)
ReportStep ==
  /\ At("loop", "report")
  /\ LET f == threads["loop"]
     IN /\ nEmitted' = nEmitted + 1
        /\ sampled' = NoteSamples(sampled, <<Sample(f.node, FALSE, Duration(f.ts, f.info))>>)
        /\ threads' = [threads EXCEPT !["loop"].pc = "delete"]
  /\ UNCHANGED <<nodes, nRemoved, last, crashed>>

\* delete(t.nodes, name)
DeleteStep ==
  /\ Writing("loop", "delete")
  /\ LET f == threads["loop"]
     IN /\ \E lands \in Lands(f) :
             /\ nodes' = IF lands THEN Delete(nodes, f.node) ELSE nodes
             /\ nRemoved' = IF lands /\ f.node \in DOMAIN nodes
                              THEN nRemoved + 1 ELSE nRemoved
        /\ threads' = [threads EXCEPT !["loop"] = [Done(f) EXCEPT !.pc = "range"]]
  /\ UNCHANGED <<nEmitted, sampled, last, crashed>>

(***************************************************************************)
(* ObserveDeletion, statement by statement.                                *)
(***************************************************************************)
StartObserveDeletion(nodeName, timestamp) ==
  /\ At("actuator", "idle")
  /\ nEmitted < MaxSamples
  /\ threads' = [threads EXCEPT !["actuator"] =
       [IdleFrame EXCEPT !.pc = "od_read", !.node = nodeName, !.ts = timestamp]]
  /\ UNCHANGED <<nodes, nEmitted, nRemoved, sampled, last, crashed>>

\* info, exists := t.nodes[nodeName]
ObserveReadStep ==
  /\ Reading("actuator", "od_read")
  /\ LET f == Done(threads["actuator"])
     IN threads' = [threads EXCEPT !["actuator"] =
          IF f.node \in DOMAIN nodes
            THEN [f EXCEPT !.pc = "od_emit", !.info = nodes[f.node]]
            ELSE IdleFrame]
  /\ UNCHANGED <<nodes, nEmitted, nRemoved, sampled, last, crashed>>

\* metrics.UpdateScaleDownNodeRemovalLatency(true, duration-info.threshold)
ObserveEmitStep ==
  /\ At("actuator", "od_emit")
  /\ LET f == threads["actuator"]
     IN /\ nEmitted' = nEmitted + 1
        /\ sampled' = NoteSamples(sampled, <<Sample(f.node, TRUE, Duration(f.ts, f.info))>>)
        /\ threads' = [threads EXCEPT !["actuator"].pc = "od_delete"]
  /\ UNCHANGED <<nodes, nRemoved, last, crashed>>

\* delete(t.nodes, nodeName)
ObserveDeleteStep ==
  /\ Writing("actuator", "od_delete")
  /\ LET f == threads["actuator"]
     IN /\ \E lands \in Lands(f) :
             /\ nodes' = IF lands THEN Delete(nodes, f.node) ELSE nodes
             /\ nRemoved' = IF lands /\ f.node \in DOMAIN nodes
                              THEN nRemoved + 1 ELSE nRemoved
        /\ threads' = [threads EXCEPT !["actuator"] = IdleFrame]
  /\ UNCHANGED <<nEmitted, sampled, last, crashed>>

(***************************************************************************)
(* UpdateThreshold and GetTrackedNodes, statement by statement.            *)
(***************************************************************************)
StartUpdateThreshold(nodeName, threshold) ==
  /\ At("loop", "idle")
  /\ nEmitted < MaxSamples
  /\ threads' = [threads EXCEPT !["loop"] =
       [IdleFrame EXCEPT !.pc = "ut_read", !.node = nodeName, !.th = threshold]]
  /\ UNCHANGED <<nodes, nEmitted, nRemoved, sampled, last, crashed>>

\* info, exists := t.nodes[nodeName]
ThresholdReadStep ==
  /\ Reading("loop", "ut_read")
  /\ LET f == Done(threads["loop"])
     IN threads' = [threads EXCEPT !["loop"] =
          IF f.node \in DOMAIN nodes
            THEN [f EXCEPT !.pc = "ut_write", !.info = nodes[f.node]]
            ELSE IdleFrame]
  /\ UNCHANGED <<nodes, nEmitted, nRemoved, sampled, last, crashed>>

\* info.threshold = threshold; t.nodes[nodeName] = info
ThresholdWriteStep ==
  /\ Writing("loop", "ut_write")
  /\ LET f == threads["loop"]
     IN /\ \E lands \in Lands(f) :
             /\ nodes' = IF lands
                           THEN Put(nodes, f.node, nodeInfo(f.info.unneededSince, f.th))
                           ELSE nodes
             /\ sampled' = IF lands /\ f.node \notin DOMAIN nodes
                             THEN [sampled EXCEPT ![f.node] = <<>>] ELSE sampled
        /\ threads' = [threads EXCEPT !["loop"] = IdleFrame]
  /\ UNCHANGED <<nEmitted, nRemoved, last, crashed>>

StartGetTrackedNodes ==
  /\ At("loop", "idle")
  /\ nEmitted < MaxSamples
  /\ threads' = [threads EXCEPT !["loop"] = [IdleFrame EXCEPT !.pc = "gt_len"]]
  /\ UNCHANGED <<nodes, nEmitted, nRemoved, sampled, last, crashed>>

\* names := make([]string, 0, len(t.nodes))
TrackedLenStep ==
  /\ Reading("loop", "gt_len")
  /\ threads' = [threads EXCEPT !["loop"] = [Done(threads["loop"]) EXCEPT !.pc = "gt_range"]]
  /\ UNCHANGED <<nodes, nEmitted, nRemoved, sampled, last, crashed>>

\* for name := range t.nodes { names = append(names, name) }; return names
TrackedRangeStep ==
  /\ Reading("loop", "gt_range")
  /\ LET f == Done(threads["loop"])
         rest == (DOMAIN nodes) \ f.seen
     IN IF rest = {}
          THEN threads' = [threads EXCEPT !["loop"] = IdleFrame]
          ELSE \E name \in rest :
                 threads' = [threads EXCEPT !["loop"] =
                   [f EXCEPT !.seen = @ \cup {name}, !.names = Append(@, name)]]
  /\ UNCHANGED <<nodes, nEmitted, nRemoved, sampled, last, crashed>>

NextConc ==
  \/ \E list \in Lists, d \in InDeletionMaps, t \in ConcTimes : StartUpdateState(list, d, t)
  \/ \E n \in Names, t \in ConcTimes : StartObserveDeletion(n, t)
  \/ \E n \in Names, th \in Thresholds : StartUpdateThreshold(n, th)
  \/ StartGetTrackedNodes
  \/ \E t \in Threads : BeginAccess(t)
  \/ \E t \in Threads : FatalError(t)
  \/ TrackStep
  \/ InsertStep
  \/ RangeStep
  \/ ReportStep
  \/ DeleteStep
  \/ ObserveReadStep
  \/ ObserveEmitStep
  \/ ObserveDeleteStep
  \/ ThresholdReadStep
  \/ ThresholdWriteStep
  \/ TrackedLenStep
  \/ TrackedRangeStep

SpecConc == Init /\ [][NextConc]_vars

(***************************************************************************)
(* The same two goroutines when every ObserveDeletion(n) that overlaps an  *)
(* UpdateStateWithUnneededList finds n in that call's unneeded list or     *)
(* among the keys of its currentlyInDeletion, so that the two calls never  *)
(* act on the same node.                                                   *)
(***************************************************************************)
Covered(n, list, currentlyInDeletion) ==
  n \in Range(list) \cup DOMAIN currentlyInDeletion

StartCoveringUpdateState(list, currentlyInDeletion, timestamp) ==
  /\ threads["actuator"].pc # "idle" =>
       Covered(threads["actuator"].node, list, currentlyInDeletion)
  /\ StartUpdateState(list, currentlyInDeletion, timestamp)

StartCoveredObserveDeletion(nodeName, timestamp) ==
  /\ threads["loop"].pc # "idle" =>
       Covered(nodeName, threads["loop"].list, threads["loop"].inDel)
  /\ StartObserveDeletion(nodeName, timestamp)

NextDisjoint ==
  \/ \E list \in Lists, d \in InDeletionMaps, t \in ConcTimes :
       StartCoveringUpdateState(list, d, t)
  \/ \E n \in Names, t \in ConcTimes : StartCoveredObserveDeletion(n, t)
  \/ \E t \in Threads : BeginAccess(t)
  \/ \E t \in Threads : FatalError(t)
  \/ TrackStep
  \/ InsertStep
  \/ RangeStep
  \/ ReportStep
  \/ DeleteStep
  \/ ObserveReadStep
  \/ ObserveEmitStep
  \/ ObserveDeleteStep

SpecDisjoint == Init /\ [][NextDisjoint]_vars

(***************************************************************************)
(* Properties of the sequential tracker (Spec).                            *)
(***************************************************************************)
IsReconcile == last.op = "UpdateStateWithUnneededList"
IsObserve == last.op = "ObserveDeletion"
IsThreshold == last.op = "UpdateThreshold"

Gone == (DOMAIN last.pre) \ (DOMAIN nodes)

\* C1: with the calls executed one after another, the number of samples
\* emitted equals the number of entries removed; each call emits exactly one
\* sample for every key it removed, for that key, and no sample otherwise.
SamplesMatchRemovals ==
  /\ nEmitted = nRemoved
  /\ Len(last.emitted) = Cardinality(Gone)
  /\ Len(last.removed) = Len(last.emitted)
  /\ \A i \in DOMAIN last.emitted : last.emitted[i].node = last.removed[i]
  /\ Range(last.removed) = Gone

SamplesMatchRemovalsWitness ==
  /\ IsObserve
  /\ last.removed = <<last.node>>
  /\ nRemoved = 2
  /\ nEmitted = 2

\* C2: every emitted duration is (timestamp of the removing call) minus the
\* stored unneededSince minus the stored threshold, negative values included.
DurationExact ==
  \A i \in DOMAIN last.emitted :
    LET e == last.emitted[i]
    IN /\ e.node \in DOMAIN last.pre
       /\ e.duration = last.ts - last.pre[e.node].unneededSince
                               - last.pre[e.node].threshold

DurationExactWitness ==
  /\ IsReconcile
  /\ \E i \in DOMAIN last.emitted :
       /\ last.emitted[i].duration < 0
       /\ last.pre[last.emitted[i].node].threshold
            > last.ts - last.pre[last.emitted[i].node].unneededSince
       /\ last.ts >= last.pre[last.emitted[i].node].unneededSince

\* C3: a node that stays tracked keeps its unneededSince; a Reconcile that
\* lists a tracked node again (even twice, at another timestamp) leaves its
\* unneededSince and threshold as they were and the node tracked.
UnneededSinceImmutable ==
  /\ \A n \in (DOMAIN last.pre) \cap (DOMAIN nodes) :
       nodes[n].unneededSince = last.pre[n].unneededSince
  /\ IsReconcile =>
       \A n \in (DOMAIN last.pre) \cap Range(last.list) :
         /\ n \in DOMAIN nodes
         /\ nodes[n] = last.pre[n]
         /\ Cardinality({k \in DOMAIN nodes : k = n}) = 1

UnneededSinceImmutableWitness ==
  /\ IsReconcile
  /\ \E n \in DOMAIN last.pre :
       /\ last.list = <<n, n>>
       /\ last.ts # last.pre[n].unneededSince
       /\ last.pre[n].threshold # 0
       /\ n \in DOMAIN nodes

\* C4: a tracked node absent from the unneeded list and present in the
\* in-deletion set is neither removed nor emitted by that Reconcile and keeps
\* its unneededSince and threshold; the call that removes a node is an
\* ObserveDeletion for it or a Reconcile that does not name it in either set.
Suppressed(n) ==
  /\ IsReconcile
  /\ n \in DOMAIN last.pre
  /\ n \notin Range(last.list)
  /\ n \in DOMAIN last.inDel

InDeletionSuppression ==
  /\ \A n \in Names :
       Suppressed(n) =>
         /\ n \in DOMAIN nodes
         /\ nodes[n] = last.pre[n]
         /\ n \notin Range(last.removed)
         /\ \A i \in DOMAIN last.emitted : last.emitted[i].node # n
  /\ \A n \in Gone :
       \/ IsObserve /\ last.node = n
       \/ IsReconcile /\ n \notin Range(last.list) /\ n \notin DOMAIN last.inDel

InDeletionSuppressionWitness ==
  \E n \in Names :
    /\ Suppressed(n)
    /\ last.removed # <<>>
    /\ last.ts # last.pre[n].unneededSince
    /\ last.pre[n].threshold # 0

\* C8: a sample emitted by ObserveDeletion is tagged actuator-initiated, one
\* emitted by Reconcile not-actuator-initiated, and it is the only sample of
\* the removed node's tracked lifetime.
TagMatchesOperation ==
  /\ \A i \in DOMAIN last.emitted : last.emitted[i].deletion = IsObserve
  /\ last.emitted # <<>> => IsObserve \/ IsReconcile
  /\ \A n \in Gone : sampled[n] = <<IsObserve>>
  /\ \A n \in DOMAIN nodes : sampled[n] = <<>>

TagMatchesOperationWitness ==
  /\ IsObserve
  /\ Gone = {last.node}
  /\ sampled[last.node] = <<TRUE>>
  /\ \E n \in Names : sampled[n] = <<FALSE>>

\* C9: ObserveDeletion and UpdateThreshold for an untracked node leave the
\* map as it was and emit nothing.
UnknownNodeNoOp ==
  (IsObserve \/ IsThreshold) /\ last.node \notin DOMAIN last.pre =>
    /\ nodes = last.pre
    /\ last.node \notin DOMAIN nodes
    /\ last.emitted = <<>>
    /\ last.removed = <<>>

UnknownNodeNoOpWitness ==
  /\ IsThreshold
  /\ last.node \notin DOMAIN last.pre
  /\ last.pre # EmptyMap
  /\ last.th # 0

\* C10 as stated: a Reconcile with an empty unneeded list and an empty
\* in-deletion set creates no entries and removes no entries.
EmptyReconcileChangesNothing ==
  IsReconcile /\ last.list = <<>> /\ DOMAIN last.inDel = {} => nodes = last.pre

\* C10 amended: such a Reconcile creates no entries and removes every
\* tracked node, each with one not-actuator-initiated sample.
EmptyReconcileClearsMap ==
  IsReconcile /\ last.list = <<>> /\ DOMAIN last.inDel = {} =>
    /\ nodes = EmptyMap
    /\ Range(last.removed) = DOMAIN last.pre
    /\ Len(last.emitted) = Cardinality(DOMAIN last.pre)
    /\ {last.emitted[i].node : i \in DOMAIN last.emitted} = DOMAIN last.pre
    /\ \A i \in DOMAIN last.emitted : ~last.emitted[i].deletion

EmptyReconcileClearsMapWitness ==
  /\ IsReconcile
  /\ last.list = <<>>
  /\ DOMAIN last.inDel = {}
  /\ DOMAIN last.pre = Names
  /\ nodes = EmptyMap

IsGet == last.op = "GetTrackedNodes"

EmittedNodes == {last.emitted[i].node : i \in DOMAIN last.emitted}

\* C11: an UpdateStateWithUnneededList made directly after another one with
\* the same unneeded list and the same in-deletion keys, at the same or any
\* later timestamp, leaves the map as the first call left it, removes nothing
\* and emits no sample.
RepeatedReconcileNoOp ==
  last.repeat =>
    /\ nodes = last.pre
    /\ last.emitted = <<>>
    /\ last.removed = <<>>

RepeatedReconcileNoOpWitness ==
  /\ last.repeat
  /\ last.elapsed > 0
  /\ \E n \in Names : Suppressed(n)
  /\ \E m \in Range(last.list) :
       /\ m \in DOMAIN nodes
       /\ nodes[m].unneededSince # last.ts

\* C12: the duration emitted when a node is removed, by either removing
\* operation, is computed with the threshold passed by the last
\* UpdateThreshold call made for the node while it was tracked, and with zero
\* when no such call was made; thresholds passed earlier do not enter it.
LastThresholdUsed ==
  \A i \in DOMAIN last.emitted :
    LET e == last.emitted[i]
    IN /\ e.node \in DOMAIN last.pre
       /\ last.pre[e.node].threshold = last.preTh[e.node]
       /\ e.duration = last.ts - last.pre[e.node].unneededSince
                               - last.preTh[e.node]

LastThresholdUsedWitness ==
  /\ IsObserve
  /\ last.emitted # <<>>
  /\ last.preTh[last.node] # 0
  /\ last.emitted[1].duration = last.ts - last.pre[last.node].unneededSince
                                        - last.preTh[last.node]
  /\ \E n \in Gone : sampled[n] = <<TRUE>>
  /\ \E n \in Names \ {last.node} : sampled[n] = <<FALSE>>

\* C13: UpdateThreshold and GetTrackedNodes leave the set of tracked nodes
\* as it was; ObserveDeletion(n) adds no key and removes no key other than n;
\* UpdateStateWithUnneededList adds only names of its unneeded list; no other
\* call adds or removes a key.
KeySetFrame ==
  /\ IsThreshold \/ IsGet \/ last.op = "none" => DOMAIN nodes = DOMAIN last.pre
  /\ IsObserve =>
       /\ DOMAIN nodes \subseteq DOMAIN last.pre
       /\ Gone \subseteq {last.node}
  /\ IsReconcile => (DOMAIN nodes) \ (DOMAIN last.pre) \subseteq Range(last.list)
  /\ (DOMAIN nodes) \ (DOMAIN last.pre) # {} => IsReconcile
  /\ Gone # {} => IsReconcile \/ IsObserve

KeySetFrameWitness ==
  /\ IsReconcile
  /\ (DOMAIN nodes) \ (DOMAIN last.pre) # {}
  /\ Gone # {}
  /\ Len(last.list) = 2

\* C14: a node whose tracked lifetime has ended and that is listed again by
\* an UpdateStateWithUnneededList is inserted anew by that call, with the
\* call's timestamp as unneededSince and threshold zero: no sample, threshold
\* or unneededSince of the earlier lifetime is carried over.
RetrackedAfresh ==
  /\ \A n \in last.retracked :
       /\ n \notin DOMAIN last.pre
       /\ n \in DOMAIN nodes
       /\ nodes[n] = nodeInfo(last.ts, 0)
       /\ last.thSet[n] = 0
       /\ sampled[n] = <<>>
  /\ IsReconcile =>
       \A n \in Range(last.list) \ DOMAIN last.pre : nodes[n] = nodeInfo(last.ts, 0)

RetrackedAfreshWitness ==
  /\ last.retracked # {}
  /\ last.ts # 0
  /\ nEmitted = 2
  /\ \E n \in last.retracked : n \in DOMAIN nodes /\ nodes[n].unneededSince = last.ts

\* C15: GetTrackedNodes returns the names tracked when it is called, each
\* exactly once and no other name, in some order, and leaves the map as it
\* was, removing nothing and emitting no sample.
TrackedNodesSnapshot ==
  IsGet =>
    /\ Range(last.ret) = DOMAIN last.pre
    /\ Len(last.ret) = Cardinality(DOMAIN last.pre)
    /\ \A n \in DOMAIN last.pre :
         Cardinality({i \in DOMAIN last.ret : last.ret[i] = n}) = 1
    /\ nodes = last.pre
    /\ last.emitted = <<>>
    /\ last.removed = <<>>

TrackedNodesSnapshotWitness ==
  /\ IsGet
  /\ Len(last.ret) = 2
  /\ last.ret[1] = "node2"
  /\ nodes[last.ret[1]].threshold # 0
  /\ nEmitted > 0

\* C16: after UpdateStateWithUnneededList(U, D, t) the tracked nodes are
\* exactly the names of U together with the nodes tracked before the call
\* that are keys of D; every node tracked before the call and in neither U
\* nor D has been removed with exactly one sample, and nothing else has.
ReconcileResultSet ==
  IsReconcile =>
    LET U == Range(last.list)
        D == DOMAIN last.inDel
        P == DOMAIN last.pre
    IN /\ DOMAIN nodes = U \cup (P \cap D)
       /\ Gone = P \ (U \cup D)
       /\ Range(last.removed) = P \ (U \cup D)
       /\ EmittedNodes = P \ (U \cup D)
       /\ \A n \in P \ (U \cup D) :
            /\ Cardinality({i \in DOMAIN last.emitted : last.emitted[i].node = n}) = 1
            /\ sampled[n] = <<FALSE>>

ReconcileResultSetWitness ==
  /\ IsReconcile
  /\ DOMAIN last.pre = Names
  /\ DOMAIN last.inDel = {}
  /\ Cardinality(Gone) = 1
  /\ Range(last.list) = DOMAIN nodes
  /\ last.ts # 0

\* C17: UpdateThreshold(n, th) for a tracked n sets n's threshold to th,
\* keeps n tracked with its unneededSince, leaves every other entry as it
\* was and emits no sample; an UpdateStateWithUnneededList that lists n
\* afterwards leaves n with the threshold last set.
ThresholdUpdateFrame ==
  /\ IsThreshold /\ last.node \in DOMAIN last.pre =>
       /\ DOMAIN nodes = DOMAIN last.pre
       /\ nodes[last.node] = nodeInfo(last.pre[last.node].unneededSince, last.th)
       /\ \A n \in DOMAIN last.pre \ {last.node} : nodes[n] = last.pre[n]
       /\ last.emitted = <<>>
       /\ last.removed = <<>>
  /\ IsReconcile =>
       \A n \in Range(last.list) \cap DOMAIN last.pre :
         /\ n \in DOMAIN nodes
         /\ nodes[n].threshold = last.preTh[n]
         /\ last.thSet[n] = last.preTh[n]

ThresholdUpdateFrameWitness ==
  /\ IsReconcile
  /\ \E n \in Range(last.list) \cap DOMAIN last.pre :
       /\ last.preTh[n] # 0
       /\ nodes[n].threshold = last.preTh[n]
       /\ last.ts # nodes[n].unneededSince
       /\ \E m \in DOMAIN nodes \ {n} :
            /\ m \in DOMAIN last.pre
            /\ nodes[m].threshold = 0

\* C18: a tracked node stays tracked, with its unneededSince and without any
\* sample, through every call other than an ObserveDeletion for it, as long
\* as each UpdateStateWithUnneededList has it among the in-deletion keys and
\* not in the unneeded list; holding after every such call, it holds for any
\* number of them, so such a node is never evicted.
Pinning(n) ==
  \/ Suppressed(n)
  \/ IsThreshold
  \/ IsGet
  \/ IsObserve /\ last.node # n

PinnedByInDeletion ==
  \A n \in DOMAIN last.pre :
    Pinning(n) =>
      /\ n \in DOMAIN nodes
      /\ nodes[n].unneededSince = last.pre[n].unneededSince
      /\ n \notin EmittedNodes
      /\ n \notin Range(last.removed)
      /\ sampled[n] = <<>>

PinnedByInDeletionWitness ==
  \E n \in Names :
    /\ Suppressed(n)
    /\ last.retracked # {}
    /\ nEmitted = 1
    /\ last.pre[n].threshold # 0
    /\ last.ts # last.pre[n].unneededSince
    /\ n \in DOMAIN nodes

\* C19: an UpdateStateWithUnneededList neither removes nor emits a sample
\* for a name of its own unneeded list: a listed node is tracked when the
\* call returns, as it was before the call or freshly inserted, whether or
\* not its name is also a key of currentlyInDeletion.
ListedNodesKept ==
  IsReconcile =>
    \A n \in Range(last.list) :
      /\ n \in DOMAIN nodes
      /\ n \notin Range(last.removed)
      /\ n \notin EmittedNodes
      /\ nodes[n] = IF n \in DOMAIN last.pre THEN last.pre[n]
                                            ELSE nodeInfo(last.ts, 0)

ListedNodesKeptWitness ==
  /\ IsReconcile
  /\ last.ts # 0
  /\ \E n \in Range(last.list) \cap DOMAIN last.inDel :
       /\ n \notin DOMAIN last.pre
       /\ n \in DOMAIN nodes
  /\ \E m \in Range(last.list) \ DOMAIN last.inDel :
       /\ m \in DOMAIN last.pre
       /\ m \in DOMAIN nodes

\* C20: the in-deletion check is on the presence of the key: a tracked node
\* absent from the unneeded list whose name is a key of currentlyInDeletion
\* with value false is kept as it was and no sample is emitted for it, as
\* with value true.
SuppressedByKey ==
  \A n \in Names :
    Suppressed(n) /\ ~last.inDel[n] =>
      /\ n \in DOMAIN nodes
      /\ nodes[n] = last.pre[n]
      /\ n \notin Range(last.removed)
      /\ n \notin EmittedNodes
      /\ sampled[n] = <<>>

SuppressedByKeyWitness ==
  \E n \in Names :
    /\ Suppressed(n)
    /\ ~last.inDel[n]
    /\ n \in DOMAIN nodes
    /\ \E m \in Names : Suppressed(m) /\ last.inDel[m] /\ m \in DOMAIN nodes

(***************************************************************************)
(* Properties of the tracker called from two goroutines.                   *)
(***************************************************************************)
\* C5: the four operations are mutually exclusive on the node map: no state
\* has one operation reading or writing the map while another writes it.
MutualExclusion ==
  \A t \in Threads : threads[t].acc = "write" => threads[Other(t)].acc = "none"

\* C6: when Reconcile and ObserveDeletion interleave on one tracked node, its
\* entry is consumed by one of them only: the entry is never reported (and
\* removed) twice in one tracked lifetime, and no removal is lost.
EntryConsumedOnce ==
  /\ \A n \in Names : Len(sampled[n]) <= 1
  /\ nRemoved <= nEmitted

\* C7: when an ObserveDeletion(n) overlaps only Reconcile calls that do not
\* act on n, every node that goes from tracked to untracked has produced
\* exactly one sample in that tracked lifetime, never zero and never two.
OneSamplePerTransition ==
  /\ \A n \in Names : n \notin DOMAIN nodes => Len(sampled[n]) <= 1
  /\ nRemoved <= nEmitted

====
